---------------------------- MODULE Spec2Model ----------------------------
(***************************************************************************)
(* Model of server/async_python_subprocess.py: AsyncPythonSubprocess, the  *)
(* bridge between one child interpreter and one websocket client.          *)
(*                                                                         *)
(* The asyncio event loop is single threaded and cooperative: an action of *)
(* the model is the run of one task from one suspension point to the next. *)
(* The child process, the kernel pipes and the client are the environment. *)
(***************************************************************************)
EXTENDS Integers, Sequences, FiniteSets, TLC

(***************************************************************************)
(* Bounds of the model.                                                    *)
(***************************************************************************)
\* start() calls a caller may make on one session object (SpecRestart).
MaxStarts == 2
\* Length of the byte sequences the decoder specification enumerates.
MaxLen == 4

Gens == 1..MaxStarts

(***************************************************************************)
(* Bytes.  A stream is a sequence of byte values; text is the sequence of  *)
(* code points bytes.decode() produces.                                    *)
(***************************************************************************)
FF == 255
NL == 10

Marker == <<FF, FF, FF, FF>>

Digits == 48..57

Take(s, n) == SubSeq(s, 1, IF n < Len(s) THEN n ELSE Len(s))

Drop(s, n) == SubSeq(s, n + 1, Len(s))

\* Index of the first newline of s, 0 when there is none.
NewlineAt(s) ==
    IF \E i \in 1..Len(s) : s[i] = NL
    THEN CHOOSE i \in 1..Len(s) : s[i] = NL /\ \A j \in 1..(i - 1) : s[j] # NL
    ELSE 0

\* StreamReader.readline() can return: a whole line is buffered, or the
\* stream is at end of file (then it returns what is left, possibly b"").
LineReady(buf, eof) == NewlineAt(buf) # 0 \/ eof

\* The bytes readline() returns: up to and including the first newline, or
\* everything when there is no newline (end of file).
ReadLine(buf) ==
    IF NewlineAt(buf) # 0 THEN Take(buf, NewlineAt(buf)) ELSE buf

\* StreamReader.read(n), n > 0, can return: some byte is buffered, or eof.
ReadReady(buf, eof, n) == buf # <<>> \/ eof

\* StreamReader.read(n): at most n bytes, whatever is buffered now.
ReadN(buf, n) == Take(buf, n)

\* bytes.decode(): utf-8; any byte >= 0x80 of the model (0xFF) is invalid and
\* raises UnicodeDecodeError, an ASCII byte decodes to its own code point.
DecodeOk(bytes) == \A i \in 1..Len(bytes) : bytes[i] < 128

\* A faulty decode that also drops the newline ending the bytes.
DecodeRstrip(bytes) ==
    IF bytes # <<>> /\ bytes[Len(bytes)] = NL
    THEN SubSeq(bytes, 1, Len(bytes) - 1)
    ELSE bytes

Decode(bytes) == bytes

\* str.strip() of the whitespace int() ignores (the model's only one is \n).
RECURSIVE StripWs(_)
StripWs(s) ==
    IF s = <<>> THEN s
    ELSE IF s[1] = NL THEN StripWs(Tail(s))
    ELSE IF s[Len(s)] = NL THEN StripWs(SubSeq(s, 1, Len(s) - 1))
    ELSE s

\* int(text) succeeds: after stripping, a non-empty run of decimal digits.
IntOk(text) ==
    /\ StripWs(text) # <<>>
    /\ \A i \in 1..Len(StripWs(text)) : StripWs(text)[i] \in Digits

RECURSIVE DigitsValue(_)
DigitsValue(s) ==
    IF s = <<>> THEN 0
    ELSE 10 * DigitsValue(SubSeq(s, 1, Len(s) - 1)) + (s[Len(s)] - 48)

\* int(text)
IntValue(text) == DigitsValue(StripWs(text))

\* output[0:4] == b"\xff\xff\xff\xff"
IsMarkerLine(line) == Take(line, 4) = Marker

\* int(output[4:].decode()) raises (UnicodeDecodeError or ValueError).
LengthOk(line) == DecodeOk(Drop(line, 4)) /\ IntOk(Decode(Drop(line, 4)))

LengthOf(line) == IntValue(Decode(Drop(line, 4)))

(***************************************************************************)
(* Events handed to client.send_text().                                    *)
(***************************************************************************)
NoEvent ==
    [type |-> "NONE", pid |-> 0, data |-> <<>>, is_input_prompt |-> FALSE,
     returncode |-> 0]

StdoutEvent(pid, text, prompt) ==
    [type |-> "STDOUT", pid |-> pid, data |-> text, is_input_prompt |-> prompt,
     returncode |-> 0]

StderrEvent(pid, text) ==
    [type |-> "STDERR", pid |-> pid, data |-> text, is_input_prompt |-> FALSE,
     returncode |-> 0]

ExitEvent(pid, rc) ==
    [type |-> "EXIT", pid |-> pid, data |-> <<>>, is_input_prompt |-> FALSE,
     returncode |-> rc]

(***************************************************************************)
(* The pump loops, as functions of what a task sees when it is resumed.    *)
(* c is the context of the run: c.eof (the reader is at end of file),      *)
(* c.ex (subprocess_exited()), c.conn (client_connected()), c.pid          *)
(* (self._process.pid, 0 when self._process is None).  a accumulates what  *)
(* the run did: a.units (the units _read_stdout returned) and a.polled     *)
(* (poll() was called).  The result names where the task is suspended      *)
(* next: "readline", "read" (in read(want)), "sending" (in send_text(ev)), *)
(* "done" (the loop was left), or "spin": the reader is empty at end of    *)
(* file, the child runs and the client is connected, so every further      *)
(* iteration returns "" at once and the task never yields.                 *)
(***************************************************************************)
\* A faulty break condition that never looks at the client.
PumpBreakIgnoresClient(text, c) == text = <<>> /\ c.ex

\* A faulty break condition that leaves as soon as the child has exited,
\* whatever was just read.
PumpBreakOnExit(text, c) == c.ex \/ ~c.conn

\* (output == "" and self.subprocess_exited()) or not self.client_connected()
PumpBreak(text, c) == (text = <<>> /\ c.ex) \/ ~c.conn

\* if output and self._process:
PumpSends(text, c) == text # <<>> /\ c.pid # 0

Unit(text, prompt) == [text |-> text, is_prompt |-> prompt]

\* What a run has done once a unit is decoded and the break condition is
\* evaluated; `and` short-circuits, so poll() runs only for an empty output.
Noted(a, text, prompt) ==
    [units |-> Append(a.units, Unit(text, prompt)),
     polled |-> a.polled \/ text = <<>>, threw |-> a.threw]

\* What a run has done once an exception is raised inside the try block.
Threw(a) == [a EXCEPT !.threw = TRUE]

\* A faulty pump without the except clause: the exception ends the task.
PumpLetsEscape == FALSE

\* except Exception as e: print(e, sys.stderr), lines 141-142 and 162-163:
\* the exception is logged inside `while True`, whose next iteration follows.
PumpCatches == TRUE

Suspended(pc, buf, a, want, ev) ==
    [pc |-> pc, buf |-> buf, units |-> a.units, polled |-> a.polled,
     threw |-> a.threw, want |-> want, ev |-> ev]

RECURSIVE StdoutLoop(_, _, _)
RECURSIVE StdoutPayload(_, _, _, _)
RECURSIVE StdoutUnit(_, _, _, _, _)

\* _stdout_pipe from the return of _read_stdout on: break, send, or loop.
StdoutUnit(text, prompt, buf, a, c) ==
    IF PumpBreak(text, c)
    THEN Suspended("done", buf, Noted(a, text, prompt), 0, NoEvent)
    ELSE IF PumpSends(text, c)
    THEN Suspended("sending", buf, Noted(a, text, prompt), 0,
                   StdoutEvent(c.pid, text, prompt))
    ELSE IF buf = <<>> /\ c.eof
    THEN Suspended("spin", buf, Noted(a, text, prompt), 0, NoEvent)
    ELSE StdoutLoop(buf, Noted(a, text, prompt), c)

\* _read_stdout from the return of read(length) on; a payload that does not
\* decode raises, the pump's except clause logs it and the loop goes on.
StdoutPayload(n, buf, a, c) ==
    IF DecodeOk(ReadN(buf, n))
    THEN StdoutUnit(Decode(ReadN(buf, n)), TRUE, Drop(buf, Len(ReadN(buf, n))), a, c)
    ELSE IF PumpCatches
    THEN StdoutLoop(Drop(buf, Len(ReadN(buf, n))), Threw(a), c)
    ELSE Suspended("failed", Drop(buf, Len(ReadN(buf, n))), Threw(a), 0, NoEvent)

\* One iteration of _stdout_pipe from `await stdout.readline()` on.
StdoutLoop(buf, a, c) ==
    IF ~LineReady(buf, c.eof)
    THEN Suspended("readline", buf, a, 0, NoEvent)
    ELSE LET line == ReadLine(buf)
             rest == Drop(buf, Len(ReadLine(buf)))
         IN  IF IsMarkerLine(line)
             THEN IF ~LengthOk(line)
                  THEN IF PumpCatches
                       THEN StdoutLoop(rest, Threw(a), c)
                       ELSE Suspended("failed", rest, Threw(a), 0, NoEvent)
                  ELSE IF LengthOf(line) = 0
                  THEN StdoutUnit(<<>>, TRUE, rest, a, c)
                  ELSE IF ~ReadReady(rest, c.eof, LengthOf(line))
                  THEN Suspended("read", rest, a, LengthOf(line), NoEvent)
                  ELSE StdoutPayload(LengthOf(line), rest, a, c)
             ELSE IF ~DecodeOk(line)
                  THEN IF PumpCatches
                       THEN StdoutLoop(rest, Threw(a), c)
                       ELSE Suspended("failed", rest, Threw(a), 0, NoEvent)
                  ELSE StdoutUnit(Decode(line), FALSE, rest, a, c)

RECURSIVE StderrLoop(_, _, _)

\* One iteration of _stderr_pipe from `await stderr.readline()` on.
StderrLoop(buf, a, c) ==
    IF ~LineReady(buf, c.eof)
    THEN Suspended("readline", buf, a, 0, NoEvent)
    ELSE LET line == ReadLine(buf)
             rest == Drop(buf, Len(ReadLine(buf)))
         IN  IF ~DecodeOk(line)
             THEN IF PumpCatches
                  THEN StderrLoop(rest, Threw(a), c)
                  ELSE Suspended("failed", rest, Threw(a), 0, NoEvent)
             ELSE IF PumpBreak(Decode(line), c)
             THEN Suspended("done", rest, Noted(a, Decode(line), FALSE), 0, NoEvent)
             ELSE IF PumpSends(Decode(line), c)
             THEN Suspended("sending", rest, Noted(a, Decode(line), FALSE), 0,
                            StderrEvent(c.pid, Decode(line)))
             ELSE IF rest = <<>> /\ c.eof
             THEN Suspended("spin", rest, Noted(a, Decode(line), FALSE), 0, NoEvent)
             ELSE StderrLoop(rest, Noted(a, Decode(line), FALSE), c)

(***************************************************************************)
(* State.  A start() call number g names what that call creates: the child *)
(* (pid g), its pipes and readers, and the three tasks.                    *)
(***************************************************************************)
VARIABLES
    start_calls,    \* start() calls made so far
    start_pc,       \* "idle", or "wiring": start() suspended connecting pipes
    start_result,   \* what the last start() call gave its caller
    process,        \* self._process: 0 is None, else the child's number
    tasks,          \* the start() call whose tasks self._*_task name, 0: unset
    child_st,       \* per child: "none", "running", "exited"
    child_status,   \* per child: the exit status the kernel holds
    sigkill,        \* per child: SIGKILL sent and not yet acted on
    returncode,     \* per child: Popen.returncode, <<>> is None, else <<rc>>
    script_out,     \* per child: every byte it will write to stdout
    script_err,
    todo_out,       \* per child: the bytes it has not written yet
    todo_err,
    wopen_out,      \* per child: its end of the stdout pipe is open
    wopen_err,
    pipe_out,       \* per child: bytes in the kernel pipe, not yet read
    pipe_err,
    buf_out,        \* per reader: StreamReader._buffer
    buf_err,
    eof_out,        \* per reader: StreamReader._eof
    eof_err,
    pc_out,         \* per stdout pump: "idle" (not created), "readline",
                    \* "read", "sending", "spin", "done", "failed" (the
                    \* task ended with an exception)
    pc_err,
    want_out,       \* per stdout pump: the length it is reading
    pc_exit,        \* per watcher: "idle", "poll", "gather", "sending",
                    \* "done", "failed" (the task ended with an exception)
    gather_on,      \* per watcher: the start() call whose pumps it joins
    last_poll,      \* per watcher: what its last loop iteration saw and did
    connected,      \* client_state == WebSocketState.CONNECTED
    events,         \* every event handed to send_text(), in order
    units_out,      \* per stdout pump: the units _read_stdout returned
    units_err,      \* per stderr pump: the lines it decoded
    threw_out,      \* per stdout pump: an exception was raised in its try
    threw_err,
    await_pc,       \* the await_end() call: "idle", "waiting"
    await_on,       \* the watcher it waits for
    await_result    \* what the last await_end() call gave its caller

vars ==
    <<start_calls, start_pc, start_result, process, tasks, child_st,
      child_status, sigkill, returncode, script_out, script_err, todo_out,
      todo_err, wopen_out, wopen_err, pipe_out, pipe_err, buf_out, buf_err,
      eof_out, eof_err, pc_out, pc_err, want_out, pc_exit, gather_on,
      last_poll, connected, events, units_out, units_err, threw_out,
      threw_err, await_pc, await_on, await_result>>

startVars == <<start_calls, start_pc, start_result, process, tasks>>
childVars == <<child_st, child_status, sigkill>>
scriptVars == <<script_out, script_err>>
outPipeVars == <<todo_out, wopen_out, pipe_out>>
errPipeVars == <<todo_err, wopen_err, pipe_err>>
outPumpVars == <<buf_out, pc_out, want_out, units_out, threw_out>>
errPumpVars == <<buf_err, pc_err, units_err, threw_err>>
exitVars == <<pc_exit, gather_on, last_poll>>
awaitVars == <<await_pc, await_on, await_result>>

\* Exit statuses a child may exit with on its own.
ExitCodes == {0, 1}

\* The status of a child killed by SIGKILL, as Popen reports it.
Killed == -9

\* What an iteration of the watcher's loop saw (conn: the client connected,
\* running: the child not exited) and did (kill: kill() called, signal:
\* SIGKILL sent by it).
NoPoll == [seen |-> FALSE, conn |-> TRUE, running |-> FALSE, kill |-> FALSE, signal |-> FALSE]

Poll(conn, running, kill, signal) ==
    [seen |-> TRUE, conn |-> conn, running |-> running, kill |-> kill, signal |-> signal]

NoResult == [kind |-> "none", value |-> <<>>, error |-> ""]
Returned(v) == [kind |-> "returned", value |-> v, error |-> ""]
Raised(e) == [kind |-> "raised", value |-> <<>>, error |-> e]

\* The state of a new session object with the given child scripts, __init__.
InitWith(outs, errs) ==
    /\ start_calls = 0
    /\ start_pc = "idle"
    /\ start_result = NoResult
    /\ process = 0
    /\ tasks = 0
    /\ child_st = [g \in Gens |-> "none"]
    /\ child_status = [g \in Gens |-> 0]
    /\ sigkill = [g \in Gens |-> FALSE]
    /\ returncode = [g \in Gens |-> <<>>]
    /\ script_out = outs
    /\ script_err = errs
    /\ todo_out = outs
    /\ todo_err = errs
    /\ wopen_out = [g \in Gens |-> TRUE]
    /\ wopen_err = [g \in Gens |-> TRUE]
    /\ pipe_out = [g \in Gens |-> <<>>]
    /\ pipe_err = [g \in Gens |-> <<>>]
    /\ buf_out = [g \in Gens |-> <<>>]
    /\ buf_err = [g \in Gens |-> <<>>]
    /\ eof_out = [g \in Gens |-> FALSE]
    /\ eof_err = [g \in Gens |-> FALSE]
    /\ pc_out = [g \in Gens |-> "idle"]
    /\ pc_err = [g \in Gens |-> "idle"]
    /\ want_out = [g \in Gens |-> 0]
    /\ pc_exit = [g \in Gens |-> "idle"]
    /\ gather_on = [g \in Gens |-> 0]
    /\ last_poll = [g \in Gens |-> NoPoll]
    /\ connected = TRUE
    /\ events = <<>>
    /\ units_out = [g \in Gens |-> <<>>]
    /\ units_err = [g \in Gens |-> <<>>]
    /\ threw_out = [g \in Gens |-> FALSE]
    /\ threw_err = [g \in Gens |-> FALSE]
    /\ await_pc = "idle"
    /\ await_on = 0
    /\ await_result = NoResult

\* self._process and self._process.poll() is not None
subprocess_exited(p) == p # 0 /\ child_st[p] = "exited"

\* Popen.poll() on child p: it records the exit status in returncode.
Polled(rc, p) ==
    IF p # 0 /\ child_st[p] = "exited" THEN [rc EXCEPT ![p] = <<child_status[p]>>]
    ELSE rc

\* A pump that never yields holds the event loop: no other task, no pipe
\* callback and no websocket callback runs until it leaves its loop.
Spinning == \E g \in Gens : pc_out[g] = "spin" \/ pc_err[g] = "spin"

Ctx(eof) == [eof |-> eof, ex |-> subprocess_exited(process), conn |-> connected, pid |-> process]

Acc(units) == [units |-> units, polled |-> FALSE, threw |-> FALSE]

(***************************************************************************)
(* start()                                                                 *)
(***************************************************************************)
\* start(), line 20: Popen succeeds; start() is then suspended wiring pipes.
StartSpawn ==
    /\ ~Spinning
    /\ start_pc = "idle"
    /\ start_calls < MaxStarts
    /\ start_calls' = start_calls + 1
    /\ process' = start_calls + 1
    /\ child_st' = [child_st EXCEPT ![start_calls + 1] = "running"]
    /\ start_pc' = "wiring"
    /\ UNCHANGED <<start_result, tasks, child_status, sigkill, returncode,
                   scriptVars, outPipeVars, errPipeVars, outPumpVars,
                   errPumpVars, eof_out, eof_err, exitVars, connected, events,
                   awaitVars>>

\* start(), line 20: Popen raises (the interpreter cannot be launched).
StartSpawnFails ==
    /\ ~Spinning
    /\ start_pc = "idle"
    /\ start_calls < MaxStarts
    /\ start_calls' = start_calls + 1
    /\ start_result' = Raised("SpawnError")
    /\ UNCHANGED <<start_pc, process, tasks, childVars, returncode, scriptVars,
                   outPipeVars, errPipeVars, outPumpVars, errPumpVars, eof_out,
                   eof_err, exitVars, connected, events, awaitVars>>

\* start(), lines 22-29: the pipes are connected, the three tasks are created
\* and the pid is returned.
StartWired ==
    /\ ~Spinning
    /\ start_pc = "wiring"
    /\ pc_out' = [pc_out EXCEPT ![process] = "readline"]
    /\ pc_err' = [pc_err EXCEPT ![process] = "readline"]
    /\ pc_exit' = [pc_exit EXCEPT ![process] = "poll"]
    /\ UNCHANGED last_poll
    /\ tasks' = process
    /\ start_pc' = "idle"
    /\ start_result' = Returned(<<process>>)
    /\ UNCHANGED <<start_calls, process, childVars, returncode, scriptVars,
                   outPipeVars, errPipeVars, buf_out, buf_err, want_out,
                   units_out, units_err, threw_out, threw_err, eof_out,
                   eof_err, gather_on,
                   connected, events, awaitVars>>

\* start(), lines 22-24: connecting a pipe raises; no task is created.
StartWireFails ==
    /\ ~Spinning
    /\ start_pc = "wiring"
    /\ start_pc' = "idle"
    /\ start_result' = Raised("PipeError")
    /\ UNCHANGED <<start_calls, process, tasks, childVars, returncode,
                   scriptVars, outPipeVars, errPipeVars, outPumpVars,
                   errPumpVars, eof_out, eof_err, exitVars, connected, events,
                   awaitVars>>

(***************************************************************************)
(* The environment: the child process, the kernel pipes, the client.       *)
(***************************************************************************)
\* The child writes the next k bytes of its stdout script (bufsize=0: each
\* write reaches the pipe at once).
ChildWriteOut(g, k) ==
    /\ child_st[g] = "running"
    /\ wopen_out[g]
    /\ k \in 1..Len(todo_out[g])
    /\ pipe_out' = [pipe_out EXCEPT ![g] = @ \o Take(todo_out[g], k)]
    /\ todo_out' = [todo_out EXCEPT ![g] = Drop(@, k)]
    /\ UNCHANGED <<startVars, childVars, returncode, scriptVars, wopen_out,
                   errPipeVars, outPumpVars, errPumpVars, eof_out, eof_err,
                   exitVars, connected, events, awaitVars>>

ChildWriteErr(g, k) ==
    /\ child_st[g] = "running"
    /\ wopen_err[g]
    /\ k \in 1..Len(todo_err[g])
    /\ pipe_err' = [pipe_err EXCEPT ![g] = @ \o Take(todo_err[g], k)]
    /\ todo_err' = [todo_err EXCEPT ![g] = Drop(@, k)]
    /\ UNCHANGED <<startVars, childVars, returncode, scriptVars, wopen_err,
                   outPipeVars, outPumpVars, errPumpVars, eof_out, eof_err,
                   exitVars, connected, events, awaitVars>>

\* The child closes its stdout after its last write and keeps running.
ChildCloseOut(g) ==
    /\ child_st[g] = "running"
    /\ wopen_out[g]
    /\ todo_out[g] = <<>>
    /\ wopen_out' = [wopen_out EXCEPT ![g] = FALSE]
    /\ UNCHANGED <<startVars, childVars, returncode, scriptVars, todo_out,
                   pipe_out, errPipeVars, outPumpVars, errPumpVars, eof_out,
                   eof_err, exitVars, connected, events, awaitVars>>

ChildCloseErr(g) ==
    /\ child_st[g] = "running"
    /\ wopen_err[g]
    /\ todo_err[g] = <<>>
    /\ wopen_err' = [wopen_err EXCEPT ![g] = FALSE]
    /\ UNCHANGED <<startVars, childVars, returncode, scriptVars, todo_err,
                   pipe_err, outPipeVars, outPumpVars, errPumpVars, eof_out,
                   eof_err, exitVars, connected, events, awaitVars>>

\* The child has written everything and exits on its own with status rc; the
\* kernel closes its ends of the pipes, what is in them stays readable.
ChildExit(g, rc) ==
    /\ child_st[g] = "running"
    /\ todo_out[g] = <<>>
    /\ todo_err[g] = <<>>
    /\ child_st' = [child_st EXCEPT ![g] = "exited"]
    /\ child_status' = [child_status EXCEPT ![g] = rc]
    /\ wopen_out' = [wopen_out EXCEPT ![g] = FALSE]
    /\ wopen_err' = [wopen_err EXCEPT ![g] = FALSE]
    /\ UNCHANGED <<startVars, sigkill, returncode, scriptVars, todo_out,
                   pipe_out, todo_err, pipe_err, outPumpVars, errPumpVars,
                   eof_out, eof_err, exitVars, connected, events, awaitVars>>

\* A child that was sent SIGKILL dies of it, wherever it is in its script.
ChildDies(g) ==
    /\ child_st[g] = "running"
    /\ sigkill[g]
    /\ child_st' = [child_st EXCEPT ![g] = "exited"]
    /\ child_status' = [child_status EXCEPT ![g] = Killed]
    /\ sigkill' = [sigkill EXCEPT ![g] = FALSE]
    /\ wopen_out' = [wopen_out EXCEPT ![g] = FALSE]
    /\ wopen_err' = [wopen_err EXCEPT ![g] = FALSE]
    /\ UNCHANGED <<startVars, returncode, scriptVars, todo_out, pipe_out,
                   todo_err, pipe_err, outPumpVars, errPumpVars, eof_out,
                   eof_err, exitVars, connected, events, awaitVars>>

\* The loop's read callback of a connected stdout pipe: everything in the
\* pipe is fed to the reader (feed_data).
DeliverOut(g) ==
    /\ ~Spinning
    /\ pc_out[g] # "idle"
    /\ pipe_out[g] # <<>>
    /\ buf_out' = [buf_out EXCEPT ![g] = @ \o pipe_out[g]]
    /\ pipe_out' = [pipe_out EXCEPT ![g] = <<>>]
    /\ UNCHANGED <<startVars, childVars, returncode, scriptVars, todo_out,
                   wopen_out, errPipeVars, pc_out, want_out, units_out,
                   threw_out,
                   errPumpVars, eof_out, eof_err, exitVars, connected, events,
                   awaitVars>>

DeliverErr(g) ==
    /\ ~Spinning
    /\ pc_err[g] # "idle"
    /\ pipe_err[g] # <<>>
    /\ buf_err' = [buf_err EXCEPT ![g] = @ \o pipe_err[g]]
    /\ pipe_err' = [pipe_err EXCEPT ![g] = <<>>]
    /\ UNCHANGED <<startVars, childVars, returncode, scriptVars, todo_err,
                   wopen_err, outPipeVars, pc_err, units_err, threw_err,
                   outPumpVars,
                   eof_out, eof_err, exitVars, connected, events, awaitVars>>

\* The read callback of an emptied pipe whose write end is closed (feed_eof).
DeliverOutEof(g) ==
    /\ ~Spinning
    /\ pc_out[g] # "idle"
    /\ pipe_out[g] = <<>>
    /\ ~wopen_out[g]
    /\ ~eof_out[g]
    /\ eof_out' = [eof_out EXCEPT ![g] = TRUE]
    /\ UNCHANGED <<startVars, childVars, returncode, scriptVars, outPipeVars,
                   errPipeVars, outPumpVars, errPumpVars, eof_err, exitVars,
                   connected, events, awaitVars>>

DeliverErrEof(g) ==
    /\ ~Spinning
    /\ pc_err[g] # "idle"
    /\ pipe_err[g] = <<>>
    /\ ~wopen_err[g]
    /\ ~eof_err[g]
    /\ eof_err' = [eof_err EXCEPT ![g] = TRUE]
    /\ UNCHANGED <<startVars, childVars, returncode, scriptVars, outPipeVars,
                   errPipeVars, outPumpVars, errPumpVars, eof_out, exitVars,
                   connected, events, awaitVars>>

\* The websocket's client_state leaves CONNECTED; it never comes back.
Disconnect ==
    /\ ~Spinning
    /\ connected
    /\ connected' = FALSE
    /\ UNCHANGED <<startVars, childVars, returncode, scriptVars, outPipeVars,
                   errPipeVars, outPumpVars, errPumpVars, eof_out, eof_err,
                   exitVars, events, awaitVars>>

(***************************************************************************)
(* The pumps.                                                              *)
(***************************************************************************)
\* A faulty send that puts the event before those already sent.
SendTextFirst(sent, ev) == <<ev>> \o sent

\* await self._websocket.send_text(...): the event follows those already
\* handed to the websocket.
SendText(sent, ev) == Append(sent, ev)

\* The state a run of the stdout pump g leaves, r being what the run did
\* (the value of one evaluation of the loop).
StdoutRan(g, r) ==
    /\ pc_out' = [pc_out EXCEPT ![g] = r.pc]
    /\ buf_out' = [buf_out EXCEPT ![g] = r.buf]
    /\ want_out' = [want_out EXCEPT ![g] = r.want]
    /\ units_out' = [units_out EXCEPT ![g] = r.units]
    /\ threw_out' = [threw_out EXCEPT ![g] = @ \/ r.threw]
    /\ events' = IF r.pc = "sending" THEN SendText(events, r.ev) ELSE events
    /\ returncode' = IF r.polled THEN Polled(returncode, process) ELSE returncode
    /\ UNCHANGED <<startVars, childVars, scriptVars, outPipeVars, errPipeVars,
                   errPumpVars, eof_out, eof_err, exitVars, connected,
                   awaitVars>>

\* _stdout_pipe resumed in readline(): a line or end of file is there.
StdoutReadLine(g) ==
    /\ ~Spinning
    /\ pc_out[g] = "readline"
    /\ LineReady(buf_out[g], eof_out[g])
    /\ \E r \in {StdoutLoop(buf_out[g], Acc(units_out[g]), Ctx(eof_out[g]))} :
           StdoutRan(g, r)

\* _stdout_pipe resumed in read(length): some bytes or end of file are there.
StdoutRead(g) ==
    /\ ~Spinning
    /\ pc_out[g] = "read"
    /\ ReadReady(buf_out[g], eof_out[g], want_out[g])
    /\ \E r \in {StdoutPayload(want_out[g], buf_out[g], Acc(units_out[g]),
                             Ctx(eof_out[g]))} :
           StdoutRan(g, r)

\* _stdout_pipe resumed in send_text(): it returned; the loop goes on.
StdoutSent(g) ==
    /\ ~Spinning
    /\ pc_out[g] = "sending"
    /\ \E r \in {StdoutLoop(buf_out[g], Acc(units_out[g]), Ctx(eof_out[g]))} :
           StdoutRan(g, r)

\* _stdout_pipe resumed in send_text(): the client went away and the send
\* raised; the except clause logs the error and the loop goes on.
StdoutSendRaises(g) ==
    /\ ~Spinning
    /\ pc_out[g] = "sending"
    /\ ~connected
    /\ \E r \in {IF PumpCatches
                 THEN StdoutLoop(buf_out[g], Threw(Acc(units_out[g])), Ctx(eof_out[g]))
                 ELSE Suspended("failed", buf_out[g], Threw(Acc(units_out[g])), 0, NoEvent)} :
           StdoutRan(g, r)

\* A spinning stdout pump sees the child exited and leaves its loop.
StdoutSpinEnds(g) ==
    /\ pc_out[g] = "spin"
    /\ subprocess_exited(process)
    /\ pc_out' = [pc_out EXCEPT ![g] = "done"]
    /\ returncode' = Polled(returncode, process)
    /\ UNCHANGED <<startVars, childVars, scriptVars, outPipeVars, errPipeVars,
                   buf_out, want_out, units_out, threw_out, errPumpVars,
                   eof_out, eof_err,
                   exitVars, connected, events, awaitVars>>

StderrRan(g, r) ==
    /\ pc_err' = [pc_err EXCEPT ![g] = r.pc]
    /\ buf_err' = [buf_err EXCEPT ![g] = r.buf]
    /\ units_err' = [units_err EXCEPT ![g] = r.units]
    /\ threw_err' = [threw_err EXCEPT ![g] = @ \/ r.threw]
    /\ events' = IF r.pc = "sending" THEN SendText(events, r.ev) ELSE events
    /\ returncode' = IF r.polled THEN Polled(returncode, process) ELSE returncode
    /\ UNCHANGED <<startVars, childVars, scriptVars, outPipeVars, errPipeVars,
                   outPumpVars, eof_out, eof_err, exitVars, connected,
                   awaitVars>>

StderrReadLine(g) ==
    /\ ~Spinning
    /\ pc_err[g] = "readline"
    /\ LineReady(buf_err[g], eof_err[g])
    /\ \E r \in {StderrLoop(buf_err[g], Acc(units_err[g]), Ctx(eof_err[g]))} :
           StderrRan(g, r)

StderrSent(g) ==
    /\ ~Spinning
    /\ pc_err[g] = "sending"
    /\ \E r \in {StderrLoop(buf_err[g], Acc(units_err[g]), Ctx(eof_err[g]))} :
           StderrRan(g, r)

StderrSendRaises(g) ==
    /\ ~Spinning
    /\ pc_err[g] = "sending"
    /\ ~connected
    /\ \E r \in {IF PumpCatches
                 THEN StderrLoop(buf_err[g], Threw(Acc(units_err[g])), Ctx(eof_err[g]))
                 ELSE Suspended("failed", buf_err[g], Threw(Acc(units_err[g])), 0, NoEvent)} :
           StderrRan(g, r)

StderrSpinEnds(g) ==
    /\ pc_err[g] = "spin"
    /\ subprocess_exited(process)
    /\ pc_err' = [pc_err EXCEPT ![g] = "done"]
    /\ returncode' = Polled(returncode, process)
    /\ UNCHANGED <<startVars, childVars, scriptVars, outPipeVars, errPipeVars,
                   outPumpVars, buf_err, units_err, threw_err, eof_out,
                   eof_err, exitVars,
                   connected, events, awaitVars>>

(***************************************************************************)
(* The exit watcher, _exit.                                                *)
(***************************************************************************)
\* A faulty watcher that kills at every poll.
WatcherAlwaysKills(conn) == TRUE

\* A faulty watcher that never kills.
WatcherNeverKills(conn) == FALSE

\* if not self.client_connected(): self._process.kill()
WatcherKills(conn) == ~conn

\* One iteration of the loop of _exit, up to its gather() or its sleep(1).
\* Popen.kill() polls first and signals only a child that has not exited;
\* the signal may or may not have taken effect (dies) at the poll() of
\* subprocess_exited() that follows.
ExitPoll(g) ==
    /\ ~Spinning
    /\ pc_exit[g] = "poll"
    /\ IF process = 0
       THEN /\ pc_exit' = [pc_exit EXCEPT ![g] = "done"]
            /\ UNCHANGED <<childVars, returncode, wopen_out, wopen_err, gather_on,
                           last_poll>>
       ELSE \E dies \in BOOLEAN :
            LET signals == WatcherKills(connected) /\ child_st[process] = "running"
                dead == signals /\ dies
                exited == subprocess_exited(process) \/ dead
                status == IF dead THEN Killed ELSE child_status[process]
            IN  /\ dies => signals
                /\ sigkill' = [sigkill EXCEPT ![process] = (@ \/ signals) /\ ~dead]
                /\ child_st' = [child_st EXCEPT ![process] = IF dead THEN "exited" ELSE @]
                /\ child_status' = [child_status EXCEPT ![process] = status]
                /\ wopen_out' = [wopen_out EXCEPT ![process] = @ /\ ~dead]
                /\ wopen_err' = [wopen_err EXCEPT ![process] = @ /\ ~dead]
                /\ returncode' = IF exited
                                 THEN [returncode EXCEPT ![process] = <<status>>]
                                 ELSE returncode
                /\ pc_exit' = [pc_exit EXCEPT ![g] = IF exited THEN "gather" ELSE "poll"]
                /\ gather_on' = [gather_on EXCEPT ![g] = IF exited THEN tasks ELSE @]
                /\ last_poll' = [last_poll EXCEPT ![g] =
                                     Poll(connected, child_st[process] = "running",
                                          WatcherKills(connected), signals)]
    /\ UNCHANGED <<startVars, scriptVars, todo_out, pipe_out, todo_err, pipe_err,
                   outPumpVars, errPumpVars, eof_out, eof_err, connected,
                   events, awaitVars>>

\* A faulty watcher that never sends EXIT.
WatcherNeverSendsExit(conn) == FALSE

\* A faulty watcher that sends EXIT whatever the client's state.
WatcherAlwaysSendsExit(conn) == TRUE

\* if self.client_connected(): after the gather(), line 180
WatcherSendsExit(conn) == conn

\* A faulty watcher that does not wait for the pumps.
PumpsNotJoined(g) == TRUE

\* await asyncio.gather(self._stdout_pipe_task, self._stderr_pipe_task)
\* returns: both pump tasks have ended.
PumpsJoined(g) == pc_out[gather_on[g]] = "done" /\ pc_err[gather_on[g]] = "done"

\* gather() raises: a pump task has ended with an exception.
PumpFailed(g) == pc_out[gather_on[g]] = "failed" \/ pc_err[gather_on[g]] = "failed"

\* _exit resumed in gather(): both pumps have ended.  It sends EXIT when the
\* client is connected, else it leaves the loop.  Were gather() to raise,
\* _exit, having no except clause, would end with the exception.
ExitGather(g) ==
    /\ ~Spinning
    /\ pc_exit[g] = "gather"
    /\ PumpsJoined(g) \/ PumpFailed(g)
    /\ IF PumpFailed(g)
       THEN /\ events' = events
            /\ pc_exit' = [pc_exit EXCEPT ![g] = "failed"]
       ELSE IF WatcherSendsExit(connected)
       THEN /\ events' = SendText(events, ExitEvent(process, returncode[process]))
            /\ pc_exit' = [pc_exit EXCEPT ![g] = "sending"]
       ELSE /\ events' = events
            /\ pc_exit' = [pc_exit EXCEPT ![g] = "done"]
    /\ UNCHANGED <<startVars, childVars, returncode, scriptVars, outPipeVars,
                   errPipeVars, outPumpVars, errPumpVars, eof_out, eof_err,
                   gather_on, last_poll, connected, awaitVars>>

\* _exit resumed in send_text(): the send returned; the loop is left.
ExitSent(g) ==
    /\ ~Spinning
    /\ pc_exit[g] = "sending"
    /\ pc_exit' = [pc_exit EXCEPT ![g] = "done"]
    /\ UNCHANGED <<startVars, childVars, returncode, scriptVars, outPipeVars,
                   errPipeVars, outPumpVars, errPumpVars, eof_out, eof_err,
                   gather_on, last_poll, connected, events, awaitVars>>

\* _exit resumed in send_text(): the client went away and the send raised;
\* _exit has no except clause, the task ends with the exception.
ExitSendRaises(g) ==
    /\ ~Spinning
    /\ pc_exit[g] = "sending"
    /\ ~connected
    /\ pc_exit' = [pc_exit EXCEPT ![g] = "failed"]
    /\ UNCHANGED <<startVars, childVars, returncode, scriptVars, outPipeVars,
                   errPipeVars, outPumpVars, errPumpVars, eof_out, eof_err,
                   gather_on, last_poll, connected, events, awaitVars>>

(***************************************************************************)
(* await_end()                                                             *)
(***************************************************************************)
\* A faulty await_end() without the check of self._process.
NotStartedUnchecked(p) == FALSE

\* if not self._process: raise Exception("Process not started...")
NotStarted(p) == p = 0

\* A faulty await_end() that does not wait for the watcher.
WatcherNotAwaited(g) == TRUE

\* await asyncio.gather(self._exit_task) returns or raises: the task ended.
WatcherEnded(g) == pc_exit[g] \in {"done", "failed"}

\* await_end() up to its gather(): it raises when the session has no process
\* (or, start() being suspended, no _exit_task yet), else it waits.
AwaitEndCall ==
    /\ ~Spinning
    /\ await_pc = "idle"
    /\ IF NotStarted(process)
       THEN /\ await_result' = Raised("NotStarted")
            /\ UNCHANGED <<await_pc, await_on>>
       ELSE IF tasks = 0
       THEN /\ await_result' = Raised("AttributeError")
            /\ UNCHANGED <<await_pc, await_on>>
       ELSE /\ await_pc' = "waiting"
            /\ await_on' = tasks
            /\ await_result' = NoResult
    /\ UNCHANGED <<startVars, childVars, returncode, scriptVars, outPipeVars,
                   errPipeVars, outPumpVars, errPumpVars, eof_out, eof_err,
                   exitVars, connected, events>>

\* await_end() resumed: the watcher task ended; its exception, if it ended
\* with one, is raised by gather(), else self._process.returncode is returned.
AwaitEndResume ==
    /\ ~Spinning
    /\ await_pc = "waiting"
    /\ WatcherEnded(await_on)
    /\ await_pc' = "idle"
    /\ await_result' = IF pc_exit[await_on] = "failed"
                       THEN Raised("SendError")
                       ELSE Returned(returncode[process])
    /\ UNCHANGED <<startVars, childVars, returncode, scriptVars, outPipeVars,
                   errPipeVars, outPumpVars, errPumpVars, eof_out, eof_err,
                   exitVars, connected, events, await_on>>

(***************************************************************************)
(* Specifications.                                                         *)
(***************************************************************************)
\* What the tasks, the child and the client do, whoever calls start().
Run ==
    \/ StartWired
    \/ StartWireFails
    \/ \E g \in Gens : \E k \in 1..Len(todo_out[g]) : ChildWriteOut(g, k)
    \/ \E g \in Gens : \E k \in 1..Len(todo_err[g]) : ChildWriteErr(g, k)
    \/ \E g \in Gens : ChildCloseOut(g)
    \/ \E g \in Gens : ChildCloseErr(g)
    \/ \E g \in Gens : \E rc \in ExitCodes : ChildExit(g, rc)
    \/ \E g \in Gens : ChildDies(g)
    \/ \E g \in Gens : DeliverOut(g)
    \/ \E g \in Gens : DeliverErr(g)
    \/ \E g \in Gens : DeliverOutEof(g)
    \/ \E g \in Gens : DeliverErrEof(g)
    \/ Disconnect
    \/ \E g \in Gens : StdoutReadLine(g)
    \/ \E g \in Gens : StdoutRead(g)
    \/ \E g \in Gens : StdoutSent(g)
    \/ \E g \in Gens : StdoutSendRaises(g)
    \/ \E g \in Gens : StdoutSpinEnds(g)
    \/ \E g \in Gens : StderrReadLine(g)
    \/ \E g \in Gens : StderrSent(g)
    \/ \E g \in Gens : StderrSendRaises(g)
    \/ \E g \in Gens : StderrSpinEnds(g)
    \/ \E g \in Gens : ExitPoll(g)
    \/ \E g \in Gens : ExitGather(g)
    \/ \E g \in Gens : ExitSent(g)
    \/ \E g \in Gens : ExitSendRaises(g)
    \/ AwaitEndCall
    \/ AwaitEndResume

\* What a child may write, <<stdout, stderr>>: nothing; a line on each
\* stream; two lines; a line with no newline; a prompt of two bytes; a prompt
\* of length 0 before a line; a marker line whose length is no number; an
\* undecodable stderr line.
Scripts ==
    { << <<>>, <<>> >>,
      << <<97, NL>>, <<98, NL>> >>,
      << <<97, NL, 98, NL>>, <<>> >>,
      << <<97>>, <<>> >>,
      << <<FF, FF, FF, FF, 50, NL, 97, 98>>, <<>> >>,
      << <<FF, FF, FF, FF, 48, NL, 97, NL>>, <<>> >>,
      << <<FF, FF, FF, FF, 97, NL, 98, NL>>, <<98, NL>> >>,
      << <<>>, <<FF, NL, 98, NL>> >> }

Only(s) == [g \in Gens |-> IF g = 1 THEN s ELSE <<>>]

\* A session object on which start() is called once.
Init == \E s \in Scripts : InitWith(Only(s[1]), Only(s[2]))

Next ==
    \/ start_calls = 0 /\ StartSpawn
    \/ start_calls = 0 /\ StartSpawnFails
    \/ Run

Spec == Init /\ [][Next]_vars



\* A session object on which start() may be called again; each child writes
\* one line to its stdout and exits, the client stays connected.
InitRestart ==
    InitWith([g \in Gens |-> <<97, NL>>], [g \in Gens |-> <<>>])

NextRestart ==
    \/ StartSpawn
    \/ StartSpawnFails
    \/ StartWired
    \/ StartWireFails
    \/ \E g \in Gens : \E k \in 1..Len(todo_out[g]) : ChildWriteOut(g, k)
    \/ \E g \in Gens : ChildExit(g, 0)
    \/ \E g \in Gens : DeliverOut(g)
    \/ \E g \in Gens : DeliverOutEof(g)
    \/ \E g \in Gens : DeliverErrEof(g)
    \/ \E g \in Gens : StdoutReadLine(g)
    \/ \E g \in Gens : StdoutSent(g)
    \/ \E g \in Gens : StderrReadLine(g)
    \/ \E g \in Gens : ExitPoll(g)
    \/ \E g \in Gens : ExitGather(g)
    \/ \E g \in Gens : ExitSent(g)

SpecRestart == InitRestart /\ [][NextRestart]_vars

\* The bytes the decoder specification draws its streams from: a letter, the
\* newline, and the byte of the marker.
DecoderBytes == {97, NL, FF}

ByteSeqs(n) == UNION {[1..k -> DecoderBytes] : k \in 0..n}

\* A started session whose child writes any stream of at most MaxLen bytes
\* to its stdout, however split, and exits; the client stays connected.
InitDecoder == \E s \in ByteSeqs(MaxLen) : InitWith(Only(s), Only(<<>>))

NextDecoder ==
    \/ start_calls = 0 /\ StartSpawn
    \/ StartWired
    \/ \E k \in 1..Len(todo_out[1]) : ChildWriteOut(1, k)
    \/ \E rc \in ExitCodes : ChildExit(1, rc)
    \/ DeliverOut(1)
    \/ DeliverOutEof(1)
    \/ StdoutReadLine(1)
    \/ StdoutSent(1)

SpecDecoder == InitDecoder /\ [][NextDecoder]_vars

\* A session whose child writes a line to stdout and a line to stderr.
InitFair == InitWith(Only(<<97, NL>>), Only(<<98, NL>>))

\* start() is called once and wires its pipes; the child writes a line at a
\* time and, if it exits, exits with 0; await_end() is called once.  The
\* tasks, the pipe callbacks and the client are as in Run.
NextFair ==
    \/ (start_calls = 0 /\ StartSpawn)
    \/ StartWired
    \/ \E g \in Gens : ChildWriteOut(g, Len(ReadLine(todo_out[g])))
    \/ \E g \in Gens : ChildWriteErr(g, Len(ReadLine(todo_err[g])))
    \/ \E g \in Gens : ChildCloseOut(g)
    \/ \E g \in Gens : ChildCloseErr(g)
    \/ \E g \in Gens : ChildExit(g, 0)
    \/ \E g \in Gens : ChildDies(g)
    \/ \E g \in Gens : DeliverOut(g)
    \/ \E g \in Gens : DeliverErr(g)
    \/ \E g \in Gens : DeliverOutEof(g)
    \/ \E g \in Gens : DeliverErrEof(g)
    \/ Disconnect
    \/ \E g \in Gens : StdoutReadLine(g)
    \/ \E g \in Gens : StdoutSent(g)
    \/ \E g \in Gens : StdoutSendRaises(g)
    \/ \E g \in Gens : StdoutSpinEnds(g)
    \/ \E g \in Gens : StderrReadLine(g)
    \/ \E g \in Gens : StderrSent(g)
    \/ \E g \in Gens : StderrSendRaises(g)
    \/ \E g \in Gens : StderrSpinEnds(g)
    \/ \E g \in Gens : ExitPoll(g)
    \/ \E g \in Gens : ExitGather(g)
    \/ \E g \in Gens : ExitSent(g)
    \/ \E g \in Gens : ExitSendRaises(g)
    \/ (await_result = NoResult /\ AwaitEndCall)
    \/ AwaitEndResume

\* What the event loop and the kernel guarantee: a task that can resume is
\* resumed, a pipe callback that is due is run, a pending SIGKILL takes
\* effect.  Nothing is assumed of what the child, the client or the callers
\* of start() and await_end() choose to do.
Fairness ==
    /\ WF_vars(\E g \in Gens : ChildDies(g))
    /\ WF_vars(\E g \in Gens : DeliverOut(g))
    /\ WF_vars(\E g \in Gens : DeliverErr(g))
    /\ WF_vars(\E g \in Gens : DeliverOutEof(g))
    /\ WF_vars(\E g \in Gens : DeliverErrEof(g))
    /\ WF_vars(\E g \in Gens : StdoutReadLine(g))
    /\ WF_vars(\E g \in Gens : StdoutSent(g) \/ StdoutSendRaises(g))
    /\ WF_vars(\E g \in Gens : StdoutSpinEnds(g))
    /\ WF_vars(\E g \in Gens : StderrReadLine(g))
    /\ WF_vars(\E g \in Gens : StderrSent(g) \/ StderrSendRaises(g))
    /\ WF_vars(\E g \in Gens : StderrSpinEnds(g))
    /\ WF_vars(\E g \in Gens : ExitPoll(g))
    /\ WF_vars(\E g \in Gens : ExitGather(g))
    /\ WF_vars(\E g \in Gens : ExitSent(g) \/ ExitSendRaises(g))
    /\ WF_vars(AwaitEndResume)

\* A session on which start() is called once, under fair scheduling.
SpecFair == InitFair /\ [][NextFair]_vars /\ Fairness

(***************************************************************************)
(* Properties.                                                             *)
(***************************************************************************)
EventsOf(t) == SelectSeq(events, LAMBDA e : e.type = t)

PumpEvent(e) == e.type \in {"STDOUT", "STDERR"}

\* No pump task is between its creation and the end of its loop.
NoPumpRunning ==
    \A g \in Gens : pc_out[g] \in {"idle", "done"} /\ pc_err[g] \in {"idle", "done"}

\* C1: at most one EXIT event is sent in a session, both pumps have ended
\* when it is sent (and so ever after), and no STDOUT or STDERR event is sent
\* after it: it is the last event.
C1_ExitOnceAndLast ==
    /\ Len(EventsOf("EXIT")) <= 1
    /\ \A i \in 1..Len(events) : events[i].type = "EXIT" => i = Len(events)
    /\ EventsOf("EXIT") # <<>> => NoPumpRunning

\* C1's case: an EXIT event was sent after output of both streams.
C1_Witness ==
    /\ EventsOf("EXIT") # <<>>
    /\ EventsOf("STDOUT") # <<>>
    /\ EventsOf("STDERR") # <<>>

\* C2: every iteration of the watcher's loop that sees the client not
\* connected calls kill(), which signals the child when it has not exited
\* (so the child is then dead or has SIGKILL on its way) and does nothing to
\* a child that has exited: such a poll leaves the child as it is.
C2_KillOnDisconnect ==
    /\ [](\A g \in Gens :
            last_poll[g].seen =>
                /\ last_poll[g].kill = ~last_poll[g].conn
                /\ last_poll[g].signal = (last_poll[g].kill /\ last_poll[g].running)
                /\ last_poll[g].signal =>
                       sigkill[process] \/ child_st[process] = "exited")
    /\ [][\A g \in Gens : (ExitPoll(g) /\ subprocess_exited(process)) => UNCHANGED childVars]_vars

\* C2's case: after the disconnect a poll of the watcher killed the child and
\* a poll saw it exited of the signal.
C2_Witness ==
    /\ ~connected
    /\ process # 0
    /\ child_st[process] = "exited"
    /\ child_status[process] = Killed
    /\ pc_exit[process] = "gather"

\* C3: a step in which a pump starts a STDOUT or STDERR send is a step that
\* began with the client connected (the pump checks in the step it sends in).
C3_SendOnlyWhenConnected ==
    [][(Len(events') > Len(events) /\ PumpEvent(events'[Len(events')]))
          => connected]_vars

\* C3's case: the client is gone, a pump's send started earlier is in flight
\* and the other pump has left its loop without sending what it decoded.
C3_Witness ==
    /\ ~connected
    /\ pc_out[1] = "sending"
    /\ pc_err[1] = "done"
    /\ units_err[1] # <<>>
    /\ EventsOf("STDERR") = <<>>

\* The stdout of child g opens with a well-formed prompt frame whose payload
\* the child writes in full.
OpensWithPrompt(g) ==
    /\ IsMarkerLine(ReadLine(script_out[g]))
    /\ LengthOk(ReadLine(script_out[g]))
    /\ Len(script_out[g]) >= Len(ReadLine(script_out[g])) + LengthOf(ReadLine(script_out[g]))
    /\ ~sigkill[g]
    /\ child_status[g] # Killed

PromptPayload(g) ==
    SubSeq(script_out[g], Len(ReadLine(script_out[g])) + 1,
           Len(ReadLine(script_out[g])) + LengthOf(ReadLine(script_out[g])))

\* C4: for a marker line with length N the decoder returns one prompt unit
\* whose text is exactly the next N bytes, however they are delivered.
C4_PromptIsNextNBytes ==
    \A g \in Gens :
        (OpensWithPrompt(g) /\ units_out[g] # <<>>)
            => units_out[g][1] = Unit(PromptPayload(g), TRUE)

RECURSIVE SplitKeep(_)
\* The lines of a stream, each with its newline; the last may have none.
SplitKeep(s) ==
    IF s = <<>> THEN <<>>
    ELSE IF \E i \in 1..Len(s) : s[i] = NL
    THEN LET i == CHOOSE i \in 1..Len(s) : s[i] = NL /\ \A j \in 1..(i - 1) : s[j] # NL
         IN  <<SubSeq(s, 1, i)>> \o SplitKeep(SubSeq(s, i + 1, Len(s)))
    ELSE <<s>>

StripNL(l) == IF l # <<>> /\ l[Len(l)] = NL THEN SubSeq(l, 1, Len(l) - 1) ELSE l

Ascii(s) == \A i \in 1..Len(s) : s[i] < 128

HasMarker(s) == \E i \in 1..Len(s) : i + 3 <= Len(s) /\ SubSeq(s, i, i + 3) = Marker

NonEmptyUnits(us) == SelectSeq(us, LAMBDA u : u.text # <<>>)

\* C5, as stated: for a stream without the marker, each unit is a line
\* without its terminator, is_prompt false.
C5_LinesWithoutTerminator ==
    ~HasMarker(script_out[1]) =>
        \A i \in 1..Len(units_out[1]) :
            i <= Len(SplitKeep(script_out[1])) =>
                units_out[1][i] = Unit(StripNL(SplitKeep(script_out[1])[i]), FALSE)

\* C5, amended: for an ASCII stream (so without the marker), the units are,
\* in order, the lines of the stream each with its newline (the last line as
\* it is when the stream ends without one), is_prompt false; the only other
\* unit is the empty one of the end of the stream.
C5_LinesWithTerminator ==
    Ascii(script_out[1]) =>
        /\ \A i \in 1..Len(units_out[1]) : ~units_out[1][i].is_prompt
        /\ \A i \in 1..Len(NonEmptyUnits(units_out[1])) :
               /\ i <= Len(SplitKeep(script_out[1]))
               /\ NonEmptyUnits(units_out[1])[i].text = SplitKeep(script_out[1])[i]
        /\ \A i \in 1..Len(units_out[1]) :
               units_out[1][i].text = <<>> =>
                   /\ i = Len(units_out[1])
                   /\ Len(units_out[1]) = Len(SplitKeep(script_out[1])) + 1

\* C5's case: a stream of two lines, the second without a newline, decoded
\* to its end.
C5_Witness ==
    /\ script_out[1] = <<97, NL, 97>>
    /\ Len(units_out[1]) = 3
    /\ pc_out[1] = "done"

\* A stream of plain lines: ASCII, every line ended by a newline.
PlainLines(s) == Ascii(s) /\ (s = <<>> \/ s[Len(s)] = NL)

LineEvents(s, t) ==
    [i \in 1..Len(SplitKeep(s)) |->
        IF t = "STDOUT" THEN StdoutEvent(1, SplitKeep(s)[i], FALSE)
        ELSE StderrEvent(1, SplitKeep(s)[i])]

\* C6: the client stays connected and the child writes plain lines and exits
\* with code c; when the watcher has ended, the events sent are one STDOUT
\* event per stdout line and one STDERR event per stderr line, each with its
\* newline, in the order of the lines, and then one EXIT event with c.
C6_LinesThenExit ==
    (/\ pc_exit[1] = "done"
     /\ connected
     /\ PlainLines(script_out[1])
     /\ PlainLines(script_err[1]))
    => /\ EventsOf("STDOUT") = LineEvents(script_out[1], "STDOUT")
       /\ EventsOf("STDERR") = LineEvents(script_err[1], "STDERR")
       /\ child_status[1] \in ExitCodes
       /\ EventsOf("EXIT") = <<ExitEvent(1, <<child_status[1]>>)>>
       /\ events[Len(events)].type = "EXIT"
       /\ Len(events) = Len(SplitKeep(script_out[1])) + Len(SplitKeep(script_err[1])) + 1

\* C6's case: "a\n" on stdout, "b\n" on stderr, exit code 0, all relayed.
C6_Witness ==
    /\ pc_exit[1] = "done"
    /\ connected
    /\ script_out[1] = <<97, NL>>
    /\ script_err[1] = <<98, NL>>
    /\ child_status[1] = 0
    /\ Len(events) = 3

\* C7: await_end() on a session on which start() was not called raises the
\* not-started error at once and changes nothing else: no child, no task, no
\* event, and the session is still not started.
C7_AwaitBeforeStart ==
    [][(AwaitEndCall /\ start_calls = 0)
          => /\ await_result' = Raised("NotStarted")
             /\ await_pc' = "idle"
             /\ process' = 0
             /\ tasks' = 0
             /\ start_calls' = 0
             /\ events' = <<>>
             /\ \A g \in Gens :
                    /\ child_st'[g] = "none"
                    /\ pc_out'[g] = "idle"
                    /\ pc_err'[g] = "idle"
                    /\ pc_exit'[g] = "idle"]_vars

\* C7's case: await_end() was called before start() and raised.
C7_Witness ==
    /\ start_calls = 0
    /\ await_result = Raised("NotStarted")

\* C8: when await_end() has returned a value, the watcher it waited for has
\* ended, the child has exited and the value is the child's exit status.
C8_AwaitReturnsExitCode ==
    await_result.kind = "returned" =>
        /\ pc_exit[await_on] = "done"
        /\ subprocess_exited(process)
        /\ await_result.value = <<child_status[process]>>

\* C8's case: await_end() returned after a disconnect and the kill.
C8_Witness ==
    /\ await_result.kind = "returned"
    /\ ~connected
    /\ await_result.value = <<Killed>>

\* C9: however often start() is called, the session spawns one child.
C9_OneChildPerSession ==
    Cardinality({g \in Gens : child_st[g] # "none"}) <= 1

\* C10: the watcher never ends with an exception and await_end() never
\* raises the error of the EXIT send.
C10_WatcherNeverFails ==
    /\ \A g \in Gens : pc_exit[g] # "failed"
    /\ await_result # Raised("SendError")

\* The step hands a new event of type t to send_text().
Sends(t) ==
    /\ Len(events') = Len(events) + 1
    /\ events'[Len(events')].type = t

\* C11: an EXIT event is sent only in a step of the watcher that finds both
\* pumps ended and the client connected; no EXIT event is sent while the
\* child runs, and none once the client is not connected, so a client that
\* goes away while the child runs never gets one; a killed child's session
\* sends none.
C11_ExitOnlyWhenConnected ==
    /\ [][Sends("EXIT") => connected /\ NoPumpRunning]_vars
    /\ [](\A g \in Gens : child_st[g] = "running" => EventsOf("EXIT") = <<>>)
    /\ [](\A g \in Gens : child_status[g] = Killed => EventsOf("EXIT") = <<>>)

\* C11's case: the client went away while the child ran, the watcher killed
\* the child, joined the pumps and ended without an EXIT event.
C11_Witness ==
    /\ ~connected
    /\ process # 0
    /\ child_status[process] = Killed
    /\ pc_exit[process] = "done"
    /\ EventsOf("EXIT") = <<>>

\* C12: a decode error or a send error inside a pump ends that pump's loop:
\* a pump in whose try block an exception was raised has left its loop, so
\* it decodes no further unit and sends no further event.
C12_ErrorEndsPump ==
    \A g \in Gens :
        /\ threw_out[g] => pc_out[g] = "done"
        /\ threw_err[g] => pc_err[g] = "done"

\* C13: an exception raised inside a pump never leaves it: no pump task ends
\* with an exception, and the watcher ends with one only out of its own EXIT
\* send, never out of its gather() of the pumps; after an error in one pump,
\* a watcher that has ended has seen the child exited and both pumps ended,
\* the other pump has relayed every line of its stream to a client that
\* stayed connected, and a value returned by await_end() is the child's exit
\* status.
C13_PumpErrorContained ==
    /\ [](\A g \in Gens : pc_out[g] # "failed" /\ pc_err[g] # "failed")
    /\ [][\A g \in Gens : (pc_exit[g] # "failed" /\ pc_exit'[g] = "failed")
                             => pc_exit[g] = "sending"]_vars
    /\ []((threw_out[1] /\ pc_exit[1] = "done" /\ connected /\ PlainLines(script_err[1]))
             => EventsOf("STDERR") = LineEvents(script_err[1], "STDERR"))
    /\ []((threw_err[1] /\ pc_exit[1] = "done" /\ connected /\ PlainLines(script_out[1]))
             => EventsOf("STDOUT") = LineEvents(script_out[1], "STDOUT"))
    /\ [](((threw_out[1] \/ threw_err[1]) /\ pc_exit[1] = "done")
             => NoPumpRunning /\ subprocess_exited(1))
    /\ [](((threw_out[1] \/ threw_err[1]) /\ await_result.kind = "returned")
             => await_result.value = <<child_status[process]>>)

\* C13's case: the stdout pump met a marker line whose length is no number,
\* the stderr pump relayed its line, the watcher sent EXIT and await_end()
\* returned the exit code.
C13_Witness ==
    /\ threw_out[1]
    /\ connected
    /\ EventsOf("STDERR") = <<StderrEvent(1, <<98, NL>>)>>
    /\ EventsOf("EXIT") # <<>>
    /\ await_result = Returned(<<1>>)

\* C14: every iteration of a pump's loop passes through a suspension point:
\* no pump is ever in a run of iterations that does not yield, whatever the
\* child has closed.
C14_PumpAlwaysYields ==
    \A g \in Gens : pc_out[g] # "spin" /\ pc_err[g] # "spin"

\* C15: the stdout pump leaves its loop, the client connected, only when its
\* stream is at its end: every byte the child wrote has been read by then,
\* nothing is left in the pipe or in the reader's buffer.
C15_StdoutDrainedAtEnd ==
    \A g \in Gens :
        (pc_out[g] = "done" /\ connected)
            => /\ todo_out[g] = <<>>
               /\ pipe_out[g] = <<>>
               /\ buf_out[g] = <<>>

\* C16: under fair scheduling, once the tasks are created and the child has
\* exited, either the client stops being connected or both pumps end, the
\* EXIT event is sent and the watcher ends normally; and an await_end() that
\* waits then returns a value unless the client stops being connected.
C16_ExitLeadsToDone ==
    /\ (tasks = 1 /\ child_st[1] = "exited")
          ~> (~connected \/ (/\ pc_out[1] = "done"
                             /\ pc_err[1] = "done"
                             /\ EventsOf("EXIT") # <<>>
                             /\ pc_exit[1] = "done"))
    /\ (await_pc = "waiting" /\ child_st[1] = "exited")
          ~> (~connected \/ (await_pc = "idle" /\ await_result.kind = "returned"))

\* C16's case: the child exited on its own, the client stayed connected, the
\* pumps ended, EXIT was sent, the watcher ended and await_end() returned.
C16_Witness ==
    /\ connected
    /\ child_st[1] = "exited"
    /\ pc_out[1] = "done"
    /\ pc_err[1] = "done"
    /\ pc_exit[1] = "done"
    /\ EventsOf("EXIT") # <<>>
    /\ await_result.kind = "returned"

\* C17: under fair scheduling, once the tasks are created, if the client is
\* not connected while the child runs, then the child comes to be exited and
\* seen exited by poll(), both pumps end, whatever read they were suspended
\* in, and the watcher ends normally: nothing of the session is left running.
C17_DisconnectLeadsToDone ==
    (tasks = 1 /\ ~connected /\ child_st[1] = "running")
        ~> (/\ child_st[1] = "exited"
            /\ returncode[1] # <<>>
            /\ pc_out[1] = "done"
            /\ pc_err[1] = "done"
            /\ pc_exit[1] = "done")

\* C17's case: the client went away while the child ran and both pumps were
\* suspended in readline(); the child was killed and every task has ended.
C17_Witness ==
    /\ ~connected
    /\ last_poll[1].running
    /\ last_poll[1].signal
    /\ child_status[1] = Killed
    /\ returncode[1] = <<Killed>>
    /\ units_out[1] = <<Unit(<<>>, FALSE)>>
    /\ pc_out[1] = "done"
    /\ pc_err[1] = "done"
    /\ pc_exit[1] = "done"

IsPrefix(s, t) == Len(s) <= Len(t) /\ \A i \in 1..Len(s) : s[i] = t[i]

\* The events of the given units, one each, in their order.
UnitEvents(us, t) ==
    [i \in 1..Len(us) |->
        IF t = "STDOUT" THEN StdoutEvent(1, us[i].text, us[i].is_prompt)
        ELSE StderrEvent(1, us[i].text)]

\* C18: the events of a stream are, in the order sent, the events of the
\* non-empty units its pump decoded, in the order decoded, one event per
\* unit: none out of order, none merged, none sent twice; only the unit last
\* decoded may still be unsent.
C18_EventsInDecodeOrder ==
    /\ IsPrefix(EventsOf("STDOUT"), UnitEvents(NonEmptyUnits(units_out[1]), "STDOUT"))
    /\ IsPrefix(EventsOf("STDERR"), UnitEvents(NonEmptyUnits(units_err[1]), "STDERR"))
    /\ Len(EventsOf("STDOUT")) >= Len(NonEmptyUnits(units_out[1])) - 1
    /\ Len(EventsOf("STDERR")) >= Len(NonEmptyUnits(units_err[1])) - 1

\* C18's case: two units were decoded from stdout and both events were sent.
C18_Witness ==
    /\ units_out[1] = <<Unit(<<97, NL>>, FALSE), Unit(<<98, NL>>, FALSE), Unit(<<>>, FALSE)>>
    /\ Len(EventsOf("STDOUT")) = 2

\* The step sends SIGKILL to a child or ends one by it.
KillIssued ==
    \E g \in Gens :
        \/ ~sigkill[g] /\ sigkill'[g]
        \/ ~sigkill[g] /\ child_status[g] # Killed /\ child_status'[g] = Killed

\* The step is a run of a pump: its position or its units change.
PumpStep ==
    /\ start_pc' = start_pc
    /\ <<pc_out, pc_err, units_out, units_err>>' # <<pc_out, pc_err, units_out, units_err>>

\* C19: a kill is issued only by a poll of the watcher that sees the client
\* not connected: while the client is connected no child has been sent
\* SIGKILL or has died of it, and no run of a pump kills, spawns or re-wires.
C19_KillOnlyOnDisconnect ==
    /\ [](connected => \A g \in Gens : ~sigkill[g] /\ child_status[g] # Killed)
    /\ [](\A g \in Gens : last_poll[g].kill => ~last_poll[g].conn)
    /\ [][KillIssued => ~connected /\ \E g \in Gens : pc_exit[g] = "poll" /\ last_poll'[g].kill]_vars
    /\ [][PumpStep => UNCHANGED <<childVars, startVars, wopen_out, wopen_err, exitVars>>]_vars

\* C19's case: the watcher saw the client not connected and sent SIGKILL,
\* which is pending.
C19_Witness ==
    /\ ~connected
    /\ sigkill[1]
    /\ last_poll[1].signal
    /\ child_st[1] = "running"

\* C20: when start() has failed wiring the pipes of the child it spawned, the
\* child is not left running unwatched: it has exited, or a kill is under
\* way, or its exit watcher exists.
C20_NoUnwatchedChild ==
    start_result = Raised("PipeError")
        => \/ child_st[process] # "running"
           \/ sigkill[process]
           \/ pc_exit[process] # "idle"

=============================================================================
